---- MODULE Spec2Model ----
(***************************************************************************)
(* Model of the two Eppo report scripts: exp-by-team.js (class             *)
(* EppoExperimentFetcher, src/unnamed/part_001) and ready-experiments.js   *)
(* (class ReadyExperimentsFetcher).                                        *)
(*                                                                         *)
(* JavaScript values are tagged records; strings are sequences of          *)
(* one-character strings, so that includes, split, replace, toLowerCase    *)
(* and parseInt are computed character by character.                       *)
(***************************************************************************)
EXTENDS Integers, Sequences, FiniteSets, TLC

VARIABLES
    script,     \* which program runs: "team" (exp-by-team.js) or "status"
    env,        \* process.env: EPPO_API_KEY and TEAM_ID
    pc,         \* position of the program
    payload,    \* response.data / allExperiments
    filtered,   \* teamExperiments / readyExperiments
    rows,       \* the per-record constants of the forEach body, in order
    csvRows,    \* csvRows: header line and one line per record
    file,       \* content of the CSV file on disk (NoFile when none)
    log,        \* console output, oldest first
    requests,   \* number of client.get calls made
    writes,     \* number of fs.writeFileSync calls made
    exitCode,   \* process exit status (Running while the process lives)
    arg,        \* harness: first argument of the function under test
    arg2,       \* harness: second argument of the function under test
    ret,        \* harness: value returned
    op          \* harness: the function that was applied

vars == <<script, env, pc, payload, filtered, rows, csvRows, file, log,
          requests, writes, exitCode, arg, arg2, ret, op>>

runVars == <<script, env, payload, filtered, rows, csvRows, file, log,
             requests, writes, exitCode>>

harnessVars == <<arg, arg2, ret, op>>

----------------------------------------------------------------------------
(* Bounds of the model.                                                    *)

MaxLen == 2          \* longest array handed to a filter in the harness
MaxStrLen == 3       \* longest string handed to escapeCsv in the harness
MaxPayload == 2      \* longest array the API returns in a run

----------------------------------------------------------------------------
(* JavaScript values.                                                      *)

Undefined == [t |-> "undefined"]
Null == [t |-> "null"]
NaN == [t |-> "nan"]
Num(n) == [t |-> "number", n |-> n]
Str(s) == [t |-> "string", s |-> s]
Obj(f) == [t |-> "object", f |-> f]
Arr(a) == [t |-> "array", a |-> a]

EmptyObj == [t |-> "object", f |-> <<>>]

\* v.k for a value that is not null or undefined (a missing key, and any
\* key of a primitive, reads as undefined).
Prop(v, k) ==
    IF v.t = "object" /\ k \in DOMAIN v.f THEN v.f[k] ELSE Undefined

\* v?.k
OptProp(v, k) ==
    IF v.t \in {"undefined", "null"} THEN Undefined ELSE Prop(v, k)

\* ToBoolean
Truthy(v) ==
    CASE v.t = "undefined" -> FALSE
      [] v.t = "null" -> FALSE
      [] v.t = "nan" -> FALSE
      [] v.t = "number" -> v.n # 0
      [] v.t = "string" -> v.s # <<>>
      [] OTHER -> TRUE

\* a || b
Or(a, b) == IF Truthy(a) THEN a ELSE b

\* typeof v
TypeOf(v) ==
    CASE v.t = "undefined" -> "undefined"
      [] v.t = "null" -> "object"
      [] v.t = "nan" -> "number"
      [] v.t = "array" -> "object"
      [] OTHER -> v.t

----------------------------------------------------------------------------
(* Strings.                                                                *)

Digits == <<"0", "1", "2", "3", "4", "5", "6", "7", "8", "9">>

RECURSIVE NatToStr(_)
NatToStr(n) ==
    IF n < 10 THEN <<Digits[n + 1]>>
    ELSE NatToStr(n \div 10) \o <<Digits[(n % 10) + 1]>>

\* Number.prototype.toString for an integer
NumToStr(n) == IF n < 0 THEN <<"-">> \o NatToStr(0 - n) ELSE NatToStr(n)

RECURSIVE JoinStr(_, _)
\* Array.prototype.join over strings
JoinStr(parts, sep) ==
    IF parts = <<>> THEN <<>>
    ELSE IF Len(parts) = 1 THEN parts[1]
    ELSE parts[1] \o sep \o JoinStr(Tail(parts), sep)

RECURSIVE ToStr(_)
RECURSIVE ElemStrs(_)
\* the strings Array.prototype.toString joins (null and undefined are empty)
ElemStrs(a) ==
    IF a = <<>> THEN <<>>
    ELSE <<IF a[1].t \in {"undefined", "null"} THEN <<>> ELSE ToStr(a[1])>>
         \o ElemStrs(Tail(a))

\* String(v), v.toString()
ToStr(v) ==
    CASE v.t = "string" -> v.s
      [] v.t = "number" -> NumToStr(v.n)
      [] v.t = "nan" -> <<"N", "a", "N">>
      [] v.t = "undefined" -> <<"u", "n", "d", "e", "f", "i", "n", "e", "d">>
      [] v.t = "null" -> <<"n", "u", "l", "l">>
      [] v.t = "array" -> JoinStr(ElemStrs(v.a), <<",">>)
      [] OTHER -> <<"[", "o", "b", "j", "e", "c", "t", " ",
                    "O", "b", "j", "e", "c", "t", "]">>

\* String.prototype.includes for a one-character needle
Includes(s, c) == \E i \in DOMAIN s : s[i] = c

UpperToLower ==
    [c \in {"A", "D", "E", "N", "O", "P", "R", "S", "U", "W", "Y"} |->
        CASE c = "A" -> "a" [] c = "D" -> "d" [] c = "E" -> "e"
          [] c = "N" -> "n" [] c = "O" -> "o" [] c = "P" -> "p"
          [] c = "R" -> "r" [] c = "S" -> "s" [] c = "U" -> "u"
          [] c = "W" -> "w" [] c = "Y" -> "y"]

\* String.prototype.toLowerCase
ToLowerCase(s) ==
    [i \in DOMAIN s |->
        IF s[i] \in DOMAIN UpperToLower THEN UpperToLower[s[i]] ELSE s[i]]

RECURSIVE SplitFrom(_, _, _)
\* the pieces of s after position i, cur being the piece under construction
SplitFrom(s, sep, cur) ==
    IF s = <<>> THEN <<cur>>
    ELSE IF Head(s) = sep THEN <<cur>> \o SplitFrom(Tail(s), sep, <<>>)
    ELSE SplitFrom(Tail(s), sep, Append(cur, Head(s)))

\* String.prototype.split for a one-character separator
Split(s, sep) == SplitFrom(s, sep, <<>>)

RECURSIVE ReplaceAll(_, _, _)
\* String.prototype.replace with a global one-character pattern
ReplaceAll(s, c, with) ==
    IF s = <<>> THEN <<>>
    ELSE (IF Head(s) = c THEN with ELSE <<Head(s)>>)
         \o ReplaceAll(Tail(s), c, with)

----------------------------------------------------------------------------
(* parseInt(v) with no radix argument.                                     *)

WhiteSpace == {" ", "\n", "\t"}

RECURSIVE TrimStart(_)
TrimStart(s) ==
    IF s # <<>> /\ Head(s) \in WhiteSpace THEN TrimStart(Tail(s)) ELSE s

DigitVal ==
    [c \in {"0", "1", "2", "3", "4", "5", "6", "7", "8", "9",
            "a", "b", "c", "d", "e", "f", "A", "B", "C", "D", "E", "F"} |->
        CASE c = "0" -> 0 [] c = "1" -> 1 [] c = "2" -> 2 [] c = "3" -> 3
          [] c = "4" -> 4 [] c = "5" -> 5 [] c = "6" -> 6 [] c = "7" -> 7
          [] c = "8" -> 8 [] c = "9" -> 9
          [] c \in {"a", "A"} -> 10 [] c \in {"b", "B"} -> 11
          [] c \in {"c", "C"} -> 12 [] c \in {"d", "D"} -> 13
          [] c \in {"e", "E"} -> 14 [] c \in {"f", "F"} -> 15]

IsDigitIn(c, radix) == c \in DOMAIN DigitVal /\ DigitVal[c] < radix

RECURSIVE DigitPrefix(_, _)
\* the longest prefix of s made of digits of the radix
DigitPrefix(s, radix) ==
    IF s # <<>> /\ IsDigitIn(Head(s), radix)
    THEN <<Head(s)>> \o DigitPrefix(Tail(s), radix)
    ELSE <<>>

RECURSIVE DigitsValue(_, _, _)
DigitsValue(ds, radix, acc) ==
    IF ds = <<>> THEN acc
    ELSE DigitsValue(Tail(ds), radix, acc * radix + DigitVal[Head(ds)])

ParseIntStr(str) ==
    LET s0 == TrimStart(str)
        neg == s0 # <<>> /\ Head(s0) = "-"
        s1 == IF s0 # <<>> /\ Head(s0) \in {"+", "-"} THEN Tail(s0) ELSE s0
        hex == Len(s1) >= 2 /\ s1[1] = "0" /\ s1[2] \in {"x", "X"}
        radix == IF hex THEN 16 ELSE 10
        s2 == IF hex THEN Tail(Tail(s1)) ELSE s1
        ds == DigitPrefix(s2, radix)
        mag == DigitsValue(ds, radix, 0)
    IN  IF ds = <<>> THEN NaN ELSE Num(IF neg THEN 0 - mag ELSE mag)

ParseInt(v) == ParseIntStr(ToStr(v))

\* a === b for the results of parseInt (NaN equals nothing)
StrictEqNum(a, b) == a.t = "number" /\ b.t = "number" /\ a.n = b.n

----------------------------------------------------------------------------
(* The two filters.                                                        *)

\* Reading a property of a null or undefined array element raises TypeError.
ElementThrows(e) == e.t \in {"undefined", "null"}

\* part_001 lines 65-70: the chain of || over the six locations
TeamIdOf(experiment) ==
    Or(Or(Or(Or(Or(Prop(experiment, "team_id"),
                   Prop(experiment, "teamId")),
                Prop(experiment, "owner_team_id")),
             Prop(experiment, "ownerTeamId")),
          OptProp(Prop(experiment, "metadata"), "team_id")),
       OptProp(Prop(experiment, "metadata"), "teamId"))

\* part_001 line 73
TeamMatch(experiment, teamId) ==
    StrictEqNum(ParseInt(TeamIdOf(experiment)), ParseInt(teamId))

RECURSIVE Reversed(_)
Reversed(q) == IF q = <<>> THEN <<>> ELSE Append(Reversed(Tail(q)), Head(q))

\* filterByTeam with a fault: the matches are collected last one first
FilterByTeamReversed(experiments, teamId) ==
    IF experiments.t # "array"
    THEN [threw |-> FALSE, warned |-> TRUE, value |-> <<>>]
    ELSE IF \E i \in DOMAIN experiments.a : ElementThrows(experiments.a[i])
    THEN [threw |-> TRUE, warned |-> FALSE, value |-> <<>>]
    ELSE [threw |-> FALSE, warned |-> FALSE,
          value |-> Reversed(SelectSeq(experiments.a,
                                       LAMBDA e : TeamMatch(e, teamId)))]

\* filterByTeam: the value returned, the warning, or the exception
FilterByTeam(experiments, teamId) ==
    IF experiments.t # "array"
    THEN [threw |-> FALSE, warned |-> TRUE, value |-> <<>>]
    ELSE IF \E i \in DOMAIN experiments.a : ElementThrows(experiments.a[i])
    THEN [threw |-> TRUE, warned |-> FALSE, value |-> <<>>]
    ELSE [threw |-> FALSE, warned |-> FALSE,
          value |-> SelectSeq(experiments.a,
                              LAMBDA e : TeamMatch(e, teamId))]

\* ready-experiments.js line 57
targetStatuses == {<<"r", "e", "a", "d", "y">>, <<"w", "r", "a", "p", "_", "u", "p">>}

\* ready-experiments.js lines 61-65: the chain of || over the five locations
StatusOf(experiment) ==
    Or(Or(Or(Or(Prop(experiment, "status"),
                Prop(experiment, "state")),
             Prop(experiment, "experiment_status")),
          OptProp(Prop(experiment, "metadata"), "status")),
       OptProp(Prop(experiment, "metadata"), "state"))

\* StatusMatch with a fault: the status is compared as written
StatusMatchCaseSensitive(experiment) ==
    LET status == StatusOf(experiment)
    IN  IF ~Truthy(status) THEN FALSE
        ELSE ToStr(status) \in targetStatuses

\* ready-experiments.js lines 67-72
StatusMatch(experiment) ==
    LET status == StatusOf(experiment)
    IN  IF ~Truthy(status) THEN FALSE
        ELSE ToLowerCase(ToStr(status)) \in targetStatuses

\* filterByTargetStatuses with a fault: no Array.isArray guard, so that
\* experiments.filter is called on what is no array
FilterByTargetStatusesNoGuard(experiments) ==
    IF experiments.t # "array"
    THEN [threw |-> TRUE, warned |-> FALSE, value |-> <<>>]
    ELSE IF \E i \in DOMAIN experiments.a : ElementThrows(experiments.a[i])
    THEN [threw |-> TRUE, warned |-> FALSE, value |-> <<>>]
    ELSE [threw |-> FALSE, warned |-> FALSE,
          value |-> SelectSeq(experiments.a, LAMBDA e : StatusMatch(e))]

\* filterByTargetStatuses: the value returned, the warning, or the exception
FilterByTargetStatuses(experiments) ==
    IF experiments.t # "array"
    THEN [threw |-> FALSE, warned |-> TRUE, value |-> <<>>]
    ELSE IF \E i \in DOMAIN experiments.a : ElementThrows(experiments.a[i])
    THEN [threw |-> TRUE, warned |-> FALSE, value |-> <<>>]
    ELSE [threw |-> FALSE, warned |-> FALSE,
          value |-> SelectSeq(experiments.a, LAMBDA e : StatusMatch(e))]

----------------------------------------------------------------------------
(* Row construction and CSV escaping.                                      *)

RECURSIVE ReplaceFirst(_, _, _)
\* String.prototype.replace with a pattern that is not global
ReplaceFirst(s, c, with) ==
    IF s = <<>> THEN <<>>
    ELSE IF Head(s) = c THEN with \o Tail(s)
    ELSE <<Head(s)>> \o ReplaceFirst(Tail(s), c, with)

\* escapeCsv with a fault: only the first double quote is doubled
EscapeCsvFirstQuoteOnly(value) ==
    LET v == IF TypeOf(value) # "string" THEN ToStr(value) ELSE value.s
    IN  IF Includes(v, ",") \/ Includes(v, "\"") \/ Includes(v, "\n")
        THEN <<"\"">> \o ReplaceFirst(v, "\"", <<"\"", "\"">>) \o <<"\"">>
        ELSE v

\* escapeCsv
EscapeCsv(value) ==
    LET v == IF TypeOf(value) # "string" THEN ToStr(value) ELSE value.s
    IN  IF Includes(v, ",") \/ Includes(v, "\"") \/ Includes(v, "\n")
        THEN <<"\"">> \o ReplaceAll(v, "\"", <<"\"", "\"">>) \o <<"\"">>
        ELSE v

UnnamedExperiment == <<"U", "n", "n", "a", "m", "e", "d", " ", "E", "x", "p", "e", "r", "i", "m", "e", "n", "t">>

UrlPrefix == <<"h", "t", "t", "p", "s", ":", "/", "/", "e", "p", "p", "o", ".", "c", "l", "o", "u", "d", "/", "e", "x", "p", "e", "r", "i", "m", "e", "n", "t", "s", "/">>

\* experiment.name || experiment.title || 'Unnamed Experiment'
ExperimentNameOf(experiment) ==
    Or(Or(Prop(experiment, "name"), Prop(experiment, "title")),
       Str(UnnamedExperiment))

\* experiment.id || experiment.experiment_id || ''
ExperimentIdOf(experiment) ==
    Or(Or(Prop(experiment, "id"), Prop(experiment, "experiment_id")),
       Str(<<>>))

\* experiment.owner || experiment.created_by || experiment.createdBy ||
\* experiment.author || {}
OwnerOf(experiment) ==
    Or(Or(Or(Or(Prop(experiment, "owner"), Prop(experiment, "created_by")),
             Prop(experiment, "createdBy")),
          Prop(experiment, "author")),
       EmptyObj)

\* OwnerNameOf with a fault: a string owner is the name, '@' or not
OwnerNameWholeString(owner) ==
    IF TypeOf(owner) = "object" /\ owner.t # "null"
    THEN Or(Or(Or(Prop(owner, "name"), Prop(owner, "full_name")),
               Prop(owner, "displayName")),
            Str(<<>>))
    ELSE IF TypeOf(owner) = "string" THEN owner
    ELSE Str(<<>>)

\* the if / else if over typeof owner that sets ownerName
OwnerNameOf(owner) ==
    IF TypeOf(owner) = "object" /\ owner.t # "null"
    THEN Or(Or(Or(Prop(owner, "name"), Prop(owner, "full_name")),
               Prop(owner, "displayName")),
            Str(<<>>))
    ELSE IF TypeOf(owner) = "string"
    THEN IF Includes(owner.s, "@") THEN Str(Split(owner.s, "@")[1])
         ELSE owner
    ELSE Str(<<>>)

\* the if / else if over typeof owner that sets ownerEmail
OwnerEmailOf(owner) ==
    IF TypeOf(owner) = "object" /\ owner.t # "null"
    THEN Or(Or(Prop(owner, "email"), Prop(owner, "email_address")),
            Str(<<>>))
    ELSE IF TypeOf(owner) = "string"
    THEN IF Includes(owner.s, "@") THEN owner ELSE Str(<<>>)
    ELSE Str(<<>>)

\* experimentId ? `https://eppo.cloud/experiments/${experimentId}` : ''
ExperimentUrlOf(experimentId) ==
    IF Truthy(experimentId) THEN Str(UrlPrefix \o ToStr(experimentId))
    ELSE Str(<<>>)

\* the status the status report prints: the chain of || ending in ''
ExperimentStatusOf(experiment) == Or(StatusOf(experiment), Str(<<>>))

\* the constants of one pass of the forEach body, shared by both reports
RowConsts(experiment) ==
    LET experimentId == ExperimentIdOf(experiment)
        owner == OwnerOf(experiment)
    IN  [experimentName |-> ExperimentNameOf(experiment),
         experimentId |-> experimentId,
         experimentStatus |-> ExperimentStatusOf(experiment),
         ownerName |-> OwnerNameOf(owner),
         ownerEmail |-> OwnerEmailOf(owner),
         experimentUrl |-> ExperimentUrlOf(experimentId)]

\* exp-by-team.js: the escaped fields of csvRow, in column order
TeamFields(r) ==
    <<EscapeCsv(r.experimentName), EscapeCsv(r.experimentId),
      EscapeCsv(r.ownerName), EscapeCsv(r.ownerEmail),
      EscapeCsv(r.experimentUrl)>>

\* ready-experiments.js: the escaped fields of csvRow, in column order
StatusFields(r) ==
    <<EscapeCsv(r.ownerName), EscapeCsv(r.ownerEmail),
      EscapeCsv(r.experimentName), EscapeCsv(r.experimentId),
      EscapeCsv(r.experimentStatus), EscapeCsv(r.experimentUrl)>>

\* one pass of the forEach body: the constants, the fields and the line
RowOf(sc, experiment) ==
    LET r == RowConsts(experiment)
        fields == IF sc = "team" THEN TeamFields(r) ELSE StatusFields(r)
    IN  [consts |-> r, fields |-> fields,
         csvRow |-> JoinStr(fields, <<",">>)]

\* SummaryEmailOf with a fault: an owner given as a string is not counted
SummaryEmailObjectsOnly(exp) ==
    LET owner == OwnerOf(exp)
    IN  IF TypeOf(owner) = "object" /\ owner.t # "null"
        THEN Or(Or(Prop(owner, "email"), Prop(owner, "email_address")),
                Str(<<>>))
        ELSE Str(<<>>)

\* the e-mail the summary computes for one record
SummaryEmailOf(exp) ==
    LET owner == OwnerOf(exp)
    IN  IF TypeOf(owner) = "object" /\ owner.t # "null"
        THEN Or(Or(Prop(owner, "email"), Prop(owner, "email_address")),
                Str(<<>>))
        ELSE IF TypeOf(owner) = "string" /\ Includes(owner.s, "@")
        THEN owner
        ELSE Str(<<>>)

\* uniqueOwnerEmails.length
UniqueOwnerEmailCount(experiments) ==
    Cardinality({SummaryEmailOf(experiments[i]) : i \in DOMAIN experiments}
                \ {Str(<<>>)})

----------------------------------------------------------------------------
(* State shared by every specification.                                    *)

NoFile == [t |-> "nofile"]
\* process exit status: none yet, or the code the process ended with
Running == [t |-> "running"]
Exited(code) == [t |-> "exited", code |-> code]
NoReturn == [t |-> "noreturn"]

\* the run has not started: nothing fetched, nothing written
RunIdle ==
    /\ script = "team"
    /\ env = [EPPO_API_KEY |-> Undefined, TEAM_ID |-> Undefined]
    /\ payload = Undefined
    /\ filtered = <<>>
    /\ rows = <<>>
    /\ csvRows = <<>>
    /\ file = NoFile
    /\ log = <<>>
    /\ requests = 0
    /\ writes = 0
    /\ exitCode = Running

----------------------------------------------------------------------------
(* Inputs of the filters: experiment records as the API may return them.   *)

TeamIdValues ==
    {Num(7), Num(0), Num(8), Str(<<"7">>), Str(<<"0">>), Str(<<"7", "a">>), Str(<<"a", "b">>),
     Str(<<"7", ".", "5">>), Str(<<>>), Null}

TeamRecords ==
    {Obj([team_id |-> v]) : v \in TeamIdValues}
    \cup {Obj([teamId |-> Num(7)]),
          Obj([owner_team_id |-> Str(<<"7">>)]),
          Obj([ownerTeamId |-> Num(8)]),
          Obj([metadata |-> Obj([team_id |-> Str(<<"7">>)])]),
          Obj([metadata |-> Obj([teamId |-> Num(7)])]),
          Obj([metadata |-> Obj([teamId |-> Num(0)])]),
          Obj([team_id |-> Num(0), teamId |-> Num(7)]),
          Obj([team_id |-> Num(8), teamId |-> Num(7)]),
          Obj([team_id |-> Null, ownerTeamId |-> Str(<<"7">>)]),
          Obj([metadata |-> Null]),
          EmptyObj}

StatusRecords ==
    {Obj([status |-> Str(v)]) :
        v \in {<<"r", "e", "a", "d", "y">>, <<"R", "E", "A", "D", "Y">>, <<"w", "r", "a", "p", "_", "u", "p">>, <<"W", "r", "a", "p", "_", "U", "p">>, <<"R", "E", "A", "D", "Y", "_", "S", "O", "O", "N">>,
               <<"r", "u", "n", "n", "i", "n", "g">>, <<"w", "r", "a", "p", " ", "u", "p">>}}
    \cup {Obj([state |-> Str(<<"R", "e", "a", "d", "y">>)]),
          Obj([experiment_status |-> Str(<<"W", "R", "A", "P", "_", "U", "P">>)]),
          Obj([metadata |-> Obj([status |-> Str(<<"r", "e", "a", "d", "y">>)])]),
          Obj([metadata |-> Obj([state |-> Str(<<"w", "r", "a", "p", "_", "u", "p">>)])]),
          Obj([status |-> Str(<<>>), state |-> Str(<<"r", "e", "a", "d", "y">>)]),
          Obj([status |-> Str(<<"r", "u", "n", "n", "i", "n", "g">>), state |-> Str(<<"r", "e", "a", "d", "y">>)]),
          Obj([status |-> Null, metadata |-> Obj([state |-> Str(<<"R", "E", "A", "D", "Y">>)])]),
          Obj([status |-> Num(1)])}

FilterRecords == TeamRecords \cup StatusRecords

TeamTargets ==
    {Str(<<"7">>), Str(<<"0">>), Str(<<"8">>), Str(<<"a", "b">>), Str(<<"7", "a">>), Num(7)}

----------------------------------------------------------------------------
(* Specification SpecFilter: the two filters applied to arrays of records. *)

InitFilter ==
    /\ RunIdle
    /\ pc = "harness"
    /\ arg = Arr(<<>>)
    /\ arg2 = Undefined
    /\ ret = NoReturn
    /\ op = "none"

\* the caller extends the array it will pass
PushRecord(r) ==
    /\ op = "none"
    /\ Len(arg.a) < MaxLen
    /\ arg' = Arr(Append(arg.a, r))
    /\ UNCHANGED <<arg2, ret, op, pc>>
    /\ UNCHANGED runVars

CallFilterByTeam(teamId) ==
    /\ op = "none"
    /\ arg2' = teamId
    /\ ret' = FilterByTeam(arg, teamId)
    /\ op' = "filterByTeam"
    /\ UNCHANGED <<arg, pc>>
    /\ UNCHANGED runVars

CallFilterByTargetStatuses ==
    /\ op = "none"
    /\ ret' = FilterByTargetStatuses(arg)
    /\ op' = "filterByTargetStatuses"
    /\ UNCHANGED <<arg, arg2, pc>>
    /\ UNCHANGED runVars

NextFilter ==
    \/ \E r \in FilterRecords : PushRecord(r)
    \/ \E t \in TeamTargets : CallFilterByTeam(t)
    \/ CallFilterByTargetStatuses

SpecFilter == InitFilter /\ [][NextFilter]_vars

----------------------------------------------------------------------------
(* Vocabulary of the properties of the filters.                            *)

\* the number of positions of seq that hold x
Count(seq, x) == Cardinality({i \in DOMAIN seq : seq[i] = x})

RECURSIVE IsSubsequence(_, _)
\* out can be obtained from inp by deleting elements
IsSubsequence(out, inp) ==
    IF out = <<>> THEN TRUE
    ELSE IF inp = <<>> THEN FALSE
    ELSE IF Head(out) = Head(inp) THEN IsSubsequence(Tail(out), Tail(inp))
    ELSE IsSubsequence(out, Tail(inp))

\* a location of a record: a key, or a key under metadata
TeamLocations ==
    <<<<"team_id">>, <<"teamId">>, <<"owner_team_id">>, <<"ownerTeamId">>,
      <<"metadata", "team_id">>, <<"metadata", "teamId">>>>

StatusLocations ==
    <<<<"status">>, <<"state">>, <<"experiment_status">>,
      <<"metadata", "status">>, <<"metadata", "state">>>>

\* the value a record holds at a location (undefined when it holds none)
ValueAt(e, path) ==
    IF Len(path) = 1 THEN Prop(e, path[1])
    ELSE OptProp(Prop(e, path[1]), path[2])

\* a location holds something: not undefined, not null, not the empty string
Present(v) == v \notin {Undefined, Null, Str(<<>>)}

\* the value at the first location, in order, that holds something
FirstPresent(e, locations) ==
    IF \E i \in DOMAIN locations : Present(ValueAt(e, locations[i]))
    THEN LET i == CHOOSE i \in DOMAIN locations :
                    /\ Present(ValueAt(e, locations[i]))
                    /\ \A j \in 1..(i - 1) :
                           ~Present(ValueAt(e, locations[j]))
         IN  ValueAt(e, locations[i])
    ELSE Undefined

\* a decimal integer written as a string: an optional sign, then digits only
IsDecimalString(s) ==
    LET d == IF s # <<>> /\ Head(s) = "-" THEN Tail(s) ELSE s
    IN  d # <<>> /\ \A i \in DOMAIN d : d[i] \in {Digits[k] : k \in 1..10}

RECURSIVE DecimalValue(_)
\* the number a string of digits denotes
DecimalValue(d) ==
    IF d = <<>> THEN 0
    ELSE 10 * DecimalValue(SubSeq(d, 1, Len(d) - 1))
         + (CHOOSE k \in 0..9 : Digits[k + 1] = d[Len(d)])

\* the value is an integer, given as a number or as a decimal string
IsIntegerValue(v) ==
    \/ v.t = "number"
    \/ v.t = "string" /\ IsDecimalString(v.s)

\* the integer an integer value denotes
IntegerOf(v) ==
    IF v.t = "number" THEN v.n
    ELSE IF Head(v.s) = "-" THEN 0 - DecimalValue(Tail(v.s))
    ELSE DecimalValue(v.s)

\* the record's team identifier and the target are the same integer
SameTeam(e, target) ==
    LET id == FirstPresent(e, TeamLocations)
    IN  /\ IsIntegerValue(id)
        /\ IsIntegerValue(target)
        /\ IntegerOf(id) = IntegerOf(target)

\* every location of the record holds nothing or an integer value
IntegerIdsOnly(e) ==
    /\ Prop(e, "metadata").t \in {"undefined", "object"}
    /\ \A i \in DOMAIN TeamLocations :
           LET v == ValueAt(e, TeamLocations[i])
           IN  v = Undefined \/ IsIntegerValue(v)

\* the record's resolved status, lowercased, is ready or wrap_up
HasTargetStatus(e) ==
    LET st == FirstPresent(e, StatusLocations)
    IN  /\ st.t = "string"
        /\ ToLowerCase(st.s) \in {<<"r", "e", "a", "d", "y">>, <<"w", "r", "a", "p", "_", "u", "p">>}

----------------------------------------------------------------------------
(* Properties of the filters, checked under SpecFilter.                    *)

\* C1: filterByTeam keeps a record iff its team identifier (the first of the
\* six locations that holds one) and the target are the same integer, for
\* integer identifiers and targets given as numbers or as decimal strings;
\* a kept record appears as often as in the input.
C1_TeamFilterKeepsExactlyTheTeam ==
    (/\ op = "filterByTeam"
     /\ IsIntegerValue(arg2)
     /\ \A i \in DOMAIN arg.a : IntegerIdsOnly(arg.a[i]))
    => \A i \in DOMAIN arg.a :
           Count(ret.value, arg.a[i]) =
               IF SameTeam(arg.a[i], arg2) THEN Count(arg.a, arg.a[i]) ELSE 0

\* C2: filterByTargetStatuses keeps a record iff its resolved status (the
\* first of the five locations that holds one), lowercased, is exactly
\* ready or wrap_up; records with another status or with none are dropped.
C2_StatusFilterKeepsExactlyTargets ==
    op = "filterByTargetStatuses"
    => \A i \in DOMAIN arg.a :
           Count(ret.value, arg.a[i]) =
               IF HasTargetStatus(arg.a[i]) THEN Count(arg.a, arg.a[i])
               ELSE 0

\* C2 witness: a two-record array of which the filter kept exactly the one
\* whose status is written in upper case.
C2_Witness ==
    /\ op = "filterByTargetStatuses"
    /\ Len(arg.a) = 2
    /\ arg.a[1] = Obj([status |-> Str(<<"R", "E", "A", "D", "Y", "_", "S", "O", "O", "N">>)])
    /\ arg.a[2] = Obj([status |-> Str(<<"R", "E", "A", "D", "Y">>)])
    /\ ret.value = <<arg.a[2]>>

\* C3: filterByTeam never keeps a record whose team identifier is absent
\* from all six locations or is a string that is not a decimal integer, and
\* keeps nothing when the target is not an integer value.
C3_NonIntegerIdNeverKept ==
    op = "filterByTeam"
    => /\ \A i \in DOMAIN arg.a :
              LET id == FirstPresent(arg.a[i], TeamLocations)
              IN  (id = Undefined
                   \/ (id.t = "string" /\ ~IsDecimalString(id.s)))
                  => Count(ret.value, arg.a[i]) = 0
       /\ ~IsIntegerValue(arg2) => ret.value = <<>>

\* C4: the output of either filter is a subsequence of its input: only
\* input records, none more often than in the input, in the input order.
C4_FilterOutputIsSubsequence ==
    op \in {"filterByTeam", "filterByTargetStatuses"}
    => /\ IsSubsequence(ret.value, arg.a)
       /\ \A i \in DOMAIN ret.value :
              Count(ret.value, ret.value[i]) <= Count(arg.a, ret.value[i])

\* C4 witness: filterByTeam kept both of two different records.
C4_Witness ==
    /\ op = "filterByTeam"
    /\ Len(arg.a) = 2
    /\ arg.a[1] # arg.a[2]
    /\ ret.value = arg.a

----------------------------------------------------------------------------
(* Inputs of the row construction and of escapeCsv.                        *)

OwnerValues ==
    {Str(<<"b", "o", "b", "@", "x">>), Str(<<"B", "o", "b">>), Str(<<"@", "x">>), Str(<<"a", "@", "b", "@", "c">>), Str(<<>>), Null,
     Num(42),
     Obj([name |-> Str(<<"J", "a", "n", "e">>), email |-> Str(<<"j", "@", "x">>)]),
     Obj([full_name |-> Str(<<"F">>), email_address |-> Str(<<"f", "@", "x">>)]),
     Obj([displayName |-> Str(<<"D">>)]),
     Obj([name |-> Str(<<>>), full_name |-> Str(<<"F">>),
          displayName |-> Str(<<"D">>), email |-> Null,
          email_address |-> Str(<<"f", "@", "x">>)]),
     Obj([name |-> Str(<<"B", ",", " ", "J", "r">>), email |-> Str(<<"b", "@", "x">>)]),
     EmptyObj}

OwnerParts ==
    {[owner |-> v] : v \in OwnerValues}
    \cup {[created_by |-> Str(<<"b", "o", "b", "@", "x">>)],
          [createdBy |-> Obj([name |-> Str(<<"J", "a", "n", "e">>), email |-> Str(<<"j", "@", "x">>)])],
          [author |-> Str(<<"B", "o", "b">>)],
          [owner |-> Str(<<>>), author |-> Str(<<"B", "o", "b">>)],
          [owner |-> Null, created_by |-> Obj([displayName |-> Str(<<"D">>)]),
           author |-> Str(<<"B", "o", "b">>)],
          <<>>}

IdParts ==
    {<<>>,
     [id |-> Str(<<"e", "1">>)],
     [id |-> Num(5)],
     [id |-> Num(0)],
     [id |-> Str(<<>>)],
     [id |-> Arr(<<>>)],
     [id |-> Str(<<"a", ",", "b">>), name |-> Str(<<"S", "a", "y", " ", "\"", "h", "i", "\"">>)],
     [id |-> Null, experiment_id |-> Str(<<"e", "2">>), title |-> Str(<<"T">>)],
     [id |-> Num(0), experiment_id |-> Num(0), status |-> Str(<<"R", "E", "A", "D", "Y">>)],
     [experiment_id |-> Num(6), metadata |-> Obj([state |-> Str(<<"w", "r", "a", "p", "_", "u", "p">>)])]}

RowRecords == {Obj(o @@ i) : o \in OwnerParts, i \in IdParts}

CsvAlphabet == {"a", ",", "\"", "\n"}

CsvNonStrings ==
    {Num(0), Num(-12), Null, Undefined, EmptyObj, Arr(<<Num(1), Num(2)>>),
     Arr(<<Num(1)>>)}

----------------------------------------------------------------------------
(* Specification SpecRow: one pass of the forEach body, and escapeCsv.     *)

InitRow ==
    /\ RunIdle
    /\ pc = "harness"
    /\ arg = Str(<<>>)
    /\ arg2 = Undefined
    /\ ret = NoReturn
    /\ op = "none"

\* the caller extends the string it will pass
AppendChar(c) ==
    /\ op = "none"
    /\ arg.t = "string"
    /\ Len(arg.s) < MaxStrLen
    /\ arg' = Str(Append(arg.s, c))
    /\ UNCHANGED <<arg2, ret, op, pc>>
    /\ UNCHANGED runVars

\* the caller passes a value that is not a string
ChooseValue(v) ==
    /\ op = "none"
    /\ arg = Str(<<>>)
    /\ arg' = v
    /\ UNCHANGED <<arg2, ret, op, pc>>
    /\ UNCHANGED runVars

CallEscapeCsv ==
    /\ op = "none"
    /\ ret' = Str(EscapeCsv(arg))
    /\ op' = "escapeCsv"
    /\ UNCHANGED <<arg, arg2, pc>>
    /\ UNCHANGED runVars

\* the forEach body of report sc runs on one record
CallRowOf(sc, experiment) ==
    /\ op = "none"
    /\ arg = Str(<<>>)
    /\ arg' = experiment
    /\ arg2' = Str(<<sc>>)
    /\ ret' = RowOf(sc, experiment)
    /\ op' = "row"
    /\ UNCHANGED pc
    /\ UNCHANGED runVars

NextRow ==
    \/ \E c \in CsvAlphabet : AppendChar(c)
    \/ \E v \in CsvNonStrings : ChooseValue(v)
    \/ CallEscapeCsv
    \/ \E sc \in {"team", "status"}, e \in RowRecords : CallRowOf(sc, e)

SpecRow == InitRow /\ [][NextRow]_vars

----------------------------------------------------------------------------
(* Vocabulary of the properties of the rows.                               *)

OwnerLocations == <<<<"owner">>, <<"created_by">>, <<"createdBy">>, <<"author">>>>

OwnerNameKeys == <<<<"name">>, <<"full_name">>, <<"displayName">>>>

OwnerEmailKeys == <<<<"email">>, <<"email_address">>>>

\* the first value that holds something, or the empty string
FirstOrEmpty(o, keys) ==
    LET v == FirstPresent(o, keys)
    IN  IF v = Undefined THEN Str(<<>>) ELSE v

\* the position of the first occurrence of c in s
FirstIndexOf(s, c) ==
    CHOOSE i \in DOMAIN s : s[i] = c /\ \A j \in 1..(i - 1) : s[j] # c

\* the field has a character that forces quoting
NeedsQuoting(v) == \E i \in DOMAIN v : v[i] \in {",", "\"", "\n"}

RECURSIVE Undoubled(_)
\* the text of a quoted field's inside: each pair of quotes read as one
\* quote (a quote that is not doubled is kept with a marker after it)
Undoubled(inner) ==
    IF inner = <<>> THEN <<>>
    ELSE IF Head(inner) # "\"" THEN <<Head(inner)>> \o Undoubled(Tail(inner))
    ELSE IF Len(inner) >= 2 /\ inner[2] = "\""
    THEN <<"\"">> \o Undoubled(Tail(Tail(inner)))
    ELSE <<"\"", "unpaired">> \o Undoubled(Tail(inner))

\* the positions of the id and of the URL among the columns of a report
IdColumn(sc) == IF sc = "team" THEN 2 ELSE 4
UrlColumn(sc) == IF sc = "team" THEN 5 ELSE 6

----------------------------------------------------------------------------
(* Properties of the rows, checked under SpecRow.                          *)

\* C6: the owner source is the first non-empty of owner, created_by,
\* createdBy, author; an object gives the first of name/full_name/
\* displayName and the first of email/email_address; a string with '@' is
\* the e-mail and its part before the first '@' the name; a string without
\* '@' is the name and the e-mail is empty; with no source both are empty.
C6_OwnerResolution ==
    op = "row"
    => LET src == FirstPresent(arg, OwnerLocations)
           name == ret.consts.ownerName
           email == ret.consts.ownerEmail
       IN  /\ src.t = "object"
              => /\ name = FirstOrEmpty(src, OwnerNameKeys)
                 /\ email = FirstOrEmpty(src, OwnerEmailKeys)
           /\ (src.t = "string" /\ Includes(src.s, "@"))
              => /\ email = src
                 /\ name = Str(SubSeq(src.s, 1, FirstIndexOf(src.s, "@") - 1))
           /\ (src.t = "string" /\ ~Includes(src.s, "@"))
              => /\ name = src
                 /\ email = Str(<<>>)
           /\ src = Undefined
              => /\ name = Str(<<>>)
                 /\ email = Str(<<>>)

\* C6 witness: a row built from a string owner with two '@': the name is
\* the part before the first one.
C6_Witness ==
    /\ op = "row"
    /\ Prop(arg, "owner") = Str(<<"a", "@", "b", "@", "c">>)
    /\ ret.consts.ownerName = Str(<<"a">>)
    /\ ret.consts.ownerEmail = Str(<<"a", "@", "b", "@", "c">>)

\* C7: escapeCsv renders a value (stringified first when it is no string)
\* wrapped in double quotes with each double quote doubled iff it contains
\* a comma, a double quote or a newline, and unchanged otherwise.
C7_EscapeCsv ==
    op = "escapeCsv"
    => LET v == IF arg.t = "string" THEN arg.s ELSE ToStr(arg)
           out == ret.s
       IN  IF NeedsQuoting(v)
           THEN /\ Len(out) >= 2
                /\ out[1] = "\""
                /\ out[Len(out)] = "\""
                /\ Undoubled(SubSeq(out, 2, Len(out) - 1)) = v
           ELSE out = v

\* C7 witness: a string with two double quotes was rendered.
C7_Witness ==
    /\ op = "escapeCsv"
    /\ arg = Str(<<"\"", "a", "\"">>)
    /\ Len(ret.s) = 7

\* C8: in a row of either report the URL field is empty iff the id field is
\* empty, and a URL that is not empty is the prefix followed by the id.
C8_UrlEmptyIffIdEmpty ==
    op = "row"
    => LET sc == arg2.s[1]
           idField == ret.fields[IdColumn(sc)]
           urlField == ret.fields[UrlColumn(sc)]
       IN  /\ (urlField = <<>>) <=> (idField = <<>>)
           /\ urlField # <<>>
              => /\ ret.consts.experimentUrl
                        = Str(UrlPrefix \o ToStr(ret.consts.experimentId))
                 /\ urlField = EscapeCsv(Str(UrlPrefix \o
                                   ToStr(ret.consts.experimentId)))

----------------------------------------------------------------------------
(* The run of a script: main, the constructor, run and the report.         *)

TeamHeader == <<"e", "x", "p", "e", "r", "i", "m", "e", "n", "t", "_", "n", "a", "m", "e", ",", "e", "x", "p", "e", "r", "i", "m", "e", "n", "t", "_", "i", "d", ",", "o", "w", "n", "e", "r", ".", "n", "a", "m", "e", ",", "o", "w", "n", "e", "r", ".", "e", "m", "a", "i", "l", ",", "e", "x", "p", "e", "r", "i", "m", "e", "n", "t", "_", "u", "r", "l">>

StatusHeader == <<"o", "w", "n", "e", "r", ",", "o", "w", "n", "e", "r", "_", "e", "m", "a", "i", "l", ",", "e", "x", "p", "e", "r", "i", "m", "e", "n", "t", "_", "n", "a", "m", "e", ",", "e", "x", "p", "e", "r", "i", "m", "e", "n", "t", "_", "i", "d", ",", "e", "x", "p", "e", "r", "i", "m", "e", "n", "t", "_", "s", "t", "a", "t", "u", "s", ",", "e", "x", "p", "e", "r", "i", "m", "e", "n", "t", "_", "l", "i", "n", "k">>

\* the constructor throws: a required variable of the script is not set
ConfigMissing(sc, e) ==
    \/ ~Truthy(e.EPPO_API_KEY)
    \/ sc = "team" /\ ~Truthy(e.TEAM_ID)

\* the filter the script applies to what it fetched
FilterOf(sc, e, data) ==
    IF sc = "team" THEN FilterByTeam(data, e.TEAM_ID)
    ELSE FilterByTargetStatuses(data)

\* run's loop over the fetched array, which reads a property of each element
SummaryLoopThrows(data) ==
    data.t = "array" /\ \E i \in DOMAIN data.a : ElementThrows(data.a[i])

\* csvRows once the forEach is over: the header, then one line per record
CsvRowsOf(sc, experiments) ==
    <<IF sc = "team" THEN TeamHeader ELSE StatusHeader>>
    \o [i \in DOMAIN experiments |-> RowOf(sc, experiments[i]).csvRow]

\* the file name: the report, and the team for the team report (the date of
\* the day is left out)
FileNameOf(sc, e) ==
    IF sc = "team" THEN [report |-> "team", team |-> e.TEAM_ID]
    ELSE [report |-> "status", team |-> Undefined]

Entry(level, what) == [level |-> level, what |-> what]

\* what fetchExperiments prints for each kind of failure before rethrowing
FetchErrorEntry(kind) ==
    CASE kind = "response" -> Entry("error", "API Error")
      [] kind = "request" -> Entry("error", "Network Error")
      [] OTHER -> Entry("error", "Error")

\* the catch of run
FatalEntries ==
    <<Entry("error", "Error occurred while fetching experiments")>>

\* Main with a fault: the constructor does not check the environment, so
\* that the request is made with no key
MainNoConfigCheck ==
    /\ pc = "start"
    /\ log' = log \o <<Entry("log", "Starting"), Entry("log", "Fetching")>>
    /\ requests' = requests + 1
    /\ pc' = "awaiting"
    /\ UNCHANGED exitCode
    /\ UNCHANGED <<script, env, payload, filtered, rows, csvRows, file, writes>>
    /\ UNCHANGED harnessVars

\* main: new Fetcher(), then run() up to the await of client.get
Main ==
    /\ pc = "start"
    /\ IF ConfigMissing(script, env)
       THEN /\ log' = Append(log, Entry("uncaught", "environment variable is required"))
            /\ exitCode' = Exited(1)
            /\ pc' = "exited"
            /\ UNCHANGED requests
       ELSE /\ log' = log \o <<Entry("log", "Starting"), Entry("log", "Fetching")>>
            /\ requests' = requests + 1
            /\ pc' = "awaiting"
            /\ UNCHANGED exitCode
    /\ UNCHANGED <<script, env, payload, filtered, rows, csvRows, file, writes>>
    /\ UNCHANGED harnessVars

\* client.get rejects: fetchExperiments logs and rethrows, run catches
FetchReject(kind) ==
    /\ pc = "awaiting"
    /\ log' = log \o <<FetchErrorEntry(kind)>> \o FatalEntries
    /\ exitCode' = Exited(1)
    /\ pc' = "exited"
    /\ UNCHANGED <<script, env, payload, filtered, rows, csvRows, file,
                   requests, writes>>
    /\ UNCHANGED harnessVars

\* FetchResolve with a fault: no early return on an empty set, so that the
\* report goes on to the header and the file write
FetchResolveNoEarlyReturn(data) ==
    /\ pc = "awaiting"
    /\ payload' = data
    /\ LET l0 == Append(log, Entry("log", "Total experiments fetched"))
           res == FilterOf(script, env, data)
           l1 == IF data.t = "array"
                 THEN Append(l0, Entry("log", "Unique found"))
                 ELSE l0
           l2 == IF res.warned
                 THEN Append(l1, Entry("warn", "Experiments data is not an array"))
                 ELSE l1
       IN  IF SummaryLoopThrows(data) \/ res.threw
           THEN /\ log' = l0 \o FatalEntries
                /\ exitCode' = Exited(1)
                /\ pc' = "exited"
                /\ UNCHANGED <<filtered, rows, csvRows>>
           ELSE /\ filtered' = res.value
                /\ rows' = [i \in DOMAIN res.value |-> RowOf(script, res.value[i])]
                /\ csvRows' = CsvRowsOf(script, res.value)
                /\ log' = Append(l2, Entry("log", "Found"))
                          \o [i \in DOMAIN res.value |->
                                 [level |-> "log", what |-> "row",
                                  line |-> RowOf(script, res.value[i]).csvRow]]
                /\ pc' = "writing"
                /\ UNCHANGED exitCode
    /\ UNCHANGED <<script, env, file, requests, writes>>
    /\ UNCHANGED harnessVars

\* client.get resolves with data: the rest of run up to the file write
FetchResolve(data) ==
    /\ pc = "awaiting"
    /\ payload' = data
    /\ LET l0 == Append(log, Entry("log", "Total experiments fetched"))
           res == FilterOf(script, env, data)
           l1 == IF data.t = "array"
                 THEN Append(l0, Entry("log", "Unique found"))
                 ELSE l0
           l2 == IF res.warned
                 THEN Append(l1, Entry("warn", "Experiments data is not an array"))
                 ELSE l1
       IN  IF SummaryLoopThrows(data) \/ res.threw
           THEN /\ log' = l0 \o FatalEntries
                /\ exitCode' = Exited(1)
                /\ pc' = "exited"
                /\ UNCHANGED <<filtered, rows, csvRows>>
           ELSE IF Len(res.value) = 0
           THEN /\ filtered' = res.value
                /\ log' = Append(l2, Entry("log", "No experiments found"))
                /\ exitCode' = Exited(0)
                /\ pc' = "exited"
                /\ UNCHANGED <<rows, csvRows>>
           ELSE /\ filtered' = res.value
                /\ rows' = [i \in DOMAIN res.value |-> RowOf(script, res.value[i])]
                /\ csvRows' = CsvRowsOf(script, res.value)
                /\ log' = Append(l2, Entry("log", "Found"))
                          \o [i \in DOMAIN res.value |->
                                 [level |-> "log", what |-> "row",
                                  line |-> RowOf(script, res.value[i]).csvRow]]
                /\ pc' = "writing"
                /\ UNCHANGED exitCode
    /\ UNCHANGED <<script, env, file, requests, writes>>
    /\ UNCHANGED harnessVars

\* the summary lines: experiments.length and uniqueOwnerEmails.length
SummaryEntry(experiments) ==
    [level |-> "log", what |-> "Summary", total |-> Len(experiments),
     uniqueOwnerEmails |-> UniqueOwnerEmailCount(experiments)]

\* WriteFile with a fault: no try around fs.writeFileSync, so that its
\* exception reaches the catch of run
WriteFileUncaught(ok) ==
    /\ pc = "writing"
    /\ writes' = writes + 1
    /\ file' = IF ok
               THEN [name |-> FileNameOf(script, env),
                     content |-> JoinStr(csvRows, <<"\n">>)]
               ELSE file
    /\ log' = IF ok
              THEN log \o <<Entry("log", "CSV file saved"),
                            SummaryEntry(filtered),
                            Entry("log", "Google Sheets Import Instructions")>>
              ELSE log \o FatalEntries
    /\ exitCode' = IF ok THEN Exited(0) ELSE Exited(1)
    /\ pc' = "exited"
    /\ UNCHANGED <<script, env, payload, filtered, rows, csvRows, requests>>
    /\ UNCHANGED harnessVars

\* fs.writeFileSync returns or throws; the summary and the instructions
\* follow in both cases, and the process ends
WriteFile(ok) ==
    /\ pc = "writing"
    /\ writes' = writes + 1
    /\ file' = IF ok
               THEN [name |-> FileNameOf(script, env),
                     content |-> JoinStr(csvRows, <<"\n">>)]
               ELSE file
    /\ log' = Append(log, IF ok THEN Entry("log", "CSV file saved")
                          ELSE Entry("error", "Error saving CSV file"))
              \o <<SummaryEntry(filtered),
                   Entry("log", "Google Sheets Import Instructions")>>
    /\ exitCode' = Exited(0)
    /\ pc' = "exited"
    /\ UNCHANGED <<script, env, payload, filtered, rows, csvRows, requests>>
    /\ UNCHANGED harnessVars

----------------------------------------------------------------------------
(* Specification Spec: every run of either script.                         *)

EnvValues == {Undefined, Str(<<>>), Str(<<"k">>)}

TeamEnvValues == {Undefined, Str(<<>>), Str(<<"7">>)}

RunRecords ==
    {Obj([team_id |-> Num(7), status |-> Str(<<"R", "E", "A", "D", "Y">>), id |-> Str(<<"e", "1">>),
          name |-> Str(<<"N">>),
          owner |-> Obj([name |-> Str(<<"J", "a", "n", "e">>), email |-> Str(<<"j", "@", "x">>)])]),
     Obj([teamId |-> Str(<<"7">>), state |-> Str(<<"w", "r", "a", "p", "_", "u", "p">>), id |-> Num(5),
          owner |-> Str(<<"j", "@", "x">>)]),
     Obj([team_id |-> Num(8), status |-> Str(<<"r", "u", "n", "n", "i", "n", "g">>),
          owner |-> Str(<<"B", "o", "b">>)]),
     Obj([metadata |-> Obj([team_id |-> Num(7), status |-> Str(<<"r", "e", "a", "d", "y">>)]),
          created_by |-> Str(<<"b", "o", "b", "@", "x">>), title |-> Str(<<"a", ",", "b">>)]),
     Obj([team_id |-> Str(<<"7">>), status |-> Str(<<"r", "e", "a", "d", "y">>)])}

\* what an array of the API may hold: records, and null
PayloadElements == RunRecords \cup {Null}

RECURSIVE SeqsUpTo(_, _)
\* the sequences over S of length at most n
SeqsUpTo(S, n) ==
    IF n = 0 THEN {<<>>}
    ELSE LET shorter == SeqsUpTo(S, n - 1)
         IN  shorter \cup {Append(q, x) : q \in shorter, x \in S}

\* what client.get may resolve with: an array, or a value of another shape
Payloads ==
    {Arr(a) : a \in SeqsUpTo(PayloadElements, MaxPayload)}
    \cup {EmptyObj, Obj([experiments |-> Arr(<<>>)]), Str(<<"o", "o", "p", "s">>),
          Str(<<>>), Null, Undefined}

FetchErrorKinds == {"response", "request", "setup"}

Init ==
    /\ script \in {"team", "status"}
    /\ env \in [EPPO_API_KEY : EnvValues, TEAM_ID : TeamEnvValues]
    /\ pc = "start"
    /\ payload = Undefined
    /\ filtered = <<>>
    /\ rows = <<>>
    /\ csvRows = <<>>
    /\ file = NoFile
    /\ log = <<>>
    /\ requests = 0
    /\ writes = 0
    /\ exitCode = Running
    /\ arg = Undefined
    /\ arg2 = Undefined
    /\ ret = NoReturn
    /\ op = "none"

Next ==
    \/ Main
    \/ \E kind \in FetchErrorKinds : FetchReject(kind)
    \/ \E data \in Payloads : FetchResolve(data)
    \/ \E ok \in BOOLEAN : WriteFile(ok)

Spec == Init /\ [][Next]_vars

----------------------------------------------------------------------------
(* Properties of the runs, checked under Spec.                             *)

\* the console shows an entry of this kind
Logged(what) == \E i \in DOMAIN log : log[i].what = what

\* client.get resolved: run went past the await
FetchResolved == Logged("Total experiments fetched")

\* client.get rejected
FetchFailed ==
    Logged("API Error") \/ Logged("Network Error") \/ Logged("Error")

\* run entered its catch
FatalPath == Logged("Error occurred while fetching experiments")

\* C5: when what was fetched is not an array, the filter returns an empty
\* sequence with a warning and raises nothing: the run goes on with an
\* empty working set, does not enter the fatal path and ends with status 0.
C5_NonArrayIsNotFatal ==
    (FetchResolved /\ payload.t # "array")
    => /\ filtered = <<>>
       /\ Logged("Experiments data is not an array")
       /\ ~FatalPath
       /\ Logged("No experiments found")
       /\ exitCode = Exited(0)

\* C5 witness: a team run that fetched an object and ended.
C5_Witness ==
    /\ script = "team"
    /\ FetchResolved
    /\ payload = Obj([experiments |-> Arr(<<>>)])
    /\ pc = "exited"
    /\ exitCode = Exited(0)

\* C9: a run ends with status 1 iff the fetch failed or a required
\* configuration value is missing at startup, and with status 0 otherwise.
C9_ExitStatus ==
    pc = "exited"
    => /\ exitCode \in {Exited(0), Exited(1)}
       /\ exitCode = Exited(1) <=> (FetchFailed \/ ConfigMissing(script, env))

\* the distinct e-mails, not empty, of the owner e-mail column of the rows
DistinctRowEmails ==
    {rows[k].consts.ownerEmail : k \in DOMAIN rows} \ {Str(<<>>)}

\* fs.writeFileSync was called and left no file
WriteFailed == writes > 0 /\ file = NoFile

\* C10: a failed file write is caught and logged; the summary (total and
\* unique owner e-mails of the records in memory) follows it and the run
\* ends with status 0.
C10_WriteFailureIsNotFatal ==
    WriteFailed
    => /\ \E i \in DOMAIN log :
              /\ log[i].what = "Error saving CSV file"
              /\ i + 1 \in DOMAIN log
              /\ log[i + 1].what = "Summary"
              /\ log[i + 1].total = Len(filtered)
              /\ log[i + 1].uniqueOwnerEmails = Cardinality(DistinctRowEmails)
       /\ ~FatalPath
       /\ pc = "exited"
       /\ exitCode = Exited(0)

\* C10 witness: the write failed in a run with two records of one owner.
C10_Witness ==
    /\ WriteFailed
    /\ Logged("Error saving CSV file")
    /\ Len(filtered) = 2
    /\ Cardinality(DistinctRowEmails) = 1
    /\ exitCode = Exited(0)

\* the filter of the run returned: the fetch resolved, and with an array
\* all of whose elements can be read (none is null)
FilterReturned ==
    /\ FetchResolved
    /\ payload.t = "array"
       => \A i \in DOMAIN payload.a :
              payload.a[i].t \notin {"null", "undefined"}

\* C11: in a run whose filtered set is empty (nothing matches, or what was
\* fetched is no array) no file is written, not even a header, no summary
\* is printed and the run ends with status 0; a file write is attempted
\* only when the filtered set is not empty.
C11_EmptySetWritesNothing ==
    /\ (FilterReturned /\ filtered = <<>>)
       => /\ pc = "exited"
          /\ writes = 0
          /\ file = NoFile
          /\ csvRows = <<>>
          /\ ~Logged("Summary")
          /\ exitCode = Exited(0)
    /\ (writes > 0 \/ pc = "writing") => filtered # <<>>

\* C11 witness: a team run that fetched one record of another team and
\* ended without a file.
C11_Witness ==
    /\ script = "team"
    /\ FilterReturned
    /\ payload.t = "array"
    /\ Len(payload.a) = 1
    /\ filtered = <<>>
    /\ Logged("No experiments found")
    /\ pc = "exited"

\* the position in the console of the first entry of a kind (0 when none)
FirstLogged(what) ==
    IF Logged(what)
    THEN CHOOSE i \in DOMAIN log :
             log[i].what = what /\ \A j \in 1..(i - 1) : log[j].what # what
    ELSE 0

\* the steps a run has taken so far are in order: the request after the
\* configuration check, the filter after the request, the write after the
\* filter
StepsInOrder ==
    /\ requests <= 1
    /\ writes <= 1
    /\ ConfigMissing(script, env) => (requests = 0 /\ writes = 0)
    /\ FetchResolved => (requests = 1 /\ ~FetchFailed)
    /\ FetchFailed
       => /\ requests = 1
          /\ writes = 0
          /\ file = NoFile
          /\ pc = "exited"
    /\ (writes > 0 \/ pc = "writing")
       => /\ FilterReturned
          /\ 0 < FirstLogged("Fetching")
          /\ FirstLogged("Fetching") < FirstLogged("Total experiments fetched")
          /\ FirstLogged("Total experiments fetched") < FirstLogged("Found")
    /\ (Logged("CSV file saved") \/ Logged("Error saving CSV file"))
       => /\ writes = 1
          /\ \A i \in DOMAIN log :
                 log[i].what \in {"CSV file saved", "Error saving CSV file"}
                 => FirstLogged("Found") < i

\* a step of a run keeps the order: a request is made only from the start
\* with the configuration complete, a write only after the filter
\* returned, and nothing follows a failed request or a configuration error
StepKeepsOrder ==
    /\ requests' # requests
       => /\ pc = "start"
          /\ ~ConfigMissing(script, env)
          /\ requests = 0
          /\ writes = 0
    /\ writes' # writes
       => /\ requests = 1
          /\ FilterReturned
          /\ filtered # <<>>
          /\ ~FetchFailed
    /\ (FetchFailed \/ (pc = "exited" /\ requests = 0))
       => UNCHANGED <<requests, writes, file, filtered>>

\* C12: in every run the configuration check comes first, then at most one
\* request, then the filter, then at most one file write; a configuration
\* error ends the run before any request, a failed request is not retried
\* and no file write follows it.
C12_StepOrder == []StepsInOrder /\ [][StepKeepsOrder]_vars

\* C12 witness: a run that made its request, filtered and wrote its file.
C12_Witness ==
    /\ requests = 1
    /\ FilterReturned
    /\ writes = 1
    /\ file # NoFile
    /\ pc = "exited"

\* the position of the owner e-mail among the columns of a report
EmailColumn(sc) == IF sc = "team" THEN 4 ELSE 2

\* the distinct fields, not empty, of the owner e-mail column as rendered
DistinctRenderedEmails ==
    {rows[k].fields[EmailColumn(script)] : k \in DOMAIN rows} \ {<<>>}

====
